---- MODULE Spec2Model ----
(***************************************************************************)
(* The Auth component of src/components/auth.tsx as a state machine.       *)
(*                                                                         *)
(* State: the four useState cells (email, password, loading, error), the   *)
(* supabase.auth requests that were issued and have not settled, and the   *)
(* number of Alert.alert dialogs raised.  One step of the machine is one   *)
(* task of the JavaScript event loop: a press on one of the two Pressable  *)
(* buttons, a change of one of the two TextInput fields, or the settling   *)
(* of an awaited supabase.auth promise (the code after the await up to and *)
(* including the finally block).  Strings are sequences of one-character   *)
(* strings, so that trim(), length and the email regular expression are    *)
(* computed on the characters.                                             *)
(*                                                                         *)
(* React commits the state updates of a task before the next task runs,    *)
(* so the props a handler sees (disabled, editable) and the values its     *)
(* closure reads (email, password) are those of the state at the start of  *)
(* the step.  The values passed to supabase.auth are read before the       *)
(* await and travel with the request.                                      *)
(*                                                                         *)
(* escaped records an exception that left a handler.  batched is the       *)
(* build's React root: a concurrent root batches the setState calls made   *)
(* after an await into one render, a legacy root renders after each of     *)
(* them.  commits is the sequence of (loading, error) renders that the     *)
(* latest step committed.                                                  *)
(***************************************************************************)
EXTENDS Integers, Sequences, FiniteSets, TLC

VARIABLES email, password, loading, error, requests, notices, last,
          escaped, batched, commits

vars == <<email, password, loading, error, requests, notices, last,
          escaped, batched, commits>>

(***************************************************************************)
(* Bounds of the model.                                                    *)
(***************************************************************************)
\* Presses are accepted by the model until this many alerts have been raised.
MaxNotices == 2
\* Longest email / password drawn by the exhaustive validation specification.
MaxEmailLen == 5
MaxPasswordLen == 6

(***************************************************************************)
(* Characters and strings.                                                 *)
(***************************************************************************)
SP == " "
EmailAlphabet == {"a", "@", ".", SP}

\* \s of the regular expression, and the characters String.prototype.trim drops.
IsWhitespace(c) == c = SP

Repeat(c, n) == [i \in 1..n |-> c]

\* All character sequences over alphabet A of length at most n.
StringsUpTo(A, n) == UNION {[1..k -> A] : k \in 0..n}

\* JavaScript truthiness of a string: only '' is falsy.
IsFalsy(s) == Len(s) = 0

RECURSIVE TrimStart(_)
TrimStart(s) ==
    IF Len(s) > 0 /\ IsWhitespace(Head(s)) THEN TrimStart(Tail(s)) ELSE s

RECURSIVE TrimEnd(_)
TrimEnd(s) ==
    IF Len(s) > 0 /\ IsWhitespace(s[Len(s)])
    THEN TrimEnd(SubSeq(s, 1, Len(s) - 1))
    ELSE s

\* String.prototype.trim
Trim(s) == TrimEnd(TrimStart(s))

\* The character class [^\s@] of emailRegex.
InClass(c) == ~IsWhitespace(c) /\ c # "@"

\* [^\s@]+ : a non-empty run of class characters.
ClassPlus(s) == Len(s) >= 1 /\ \A k \in 1..Len(s) : InClass(s[k])

\* emailRegex.test(s) for /^[^\s@]+@[^\s@]+\.[^\s@]+$/ : s splits as
\* A @ B . C with A, B and C each matching [^\s@]+ .
emailRegexTest(s) ==
    \E i \in 1..Len(s) : \E j \in 1..Len(s) :
        /\ i < j
        /\ s[i] = "@"
        /\ s[j] = "."
        /\ ClassPlus(SubSeq(s, 1, i - 1))
        /\ ClassPlus(SubSeq(s, i + 1, j - 1))
        /\ ClassPlus(SubSeq(s, j + 1, Len(s)))

(***************************************************************************)
(* Messages.                                                               *)
(***************************************************************************)
NoError == ""
MsgEnterBoth == "Please enter both email and password"
MsgInvalidEmail == "Please enter a valid email address"
MsgPasswordShort == "Password must be at least 6 characters long"
MsgIncorrect == "Incorrect email or password"
MsgVerifyFirst == "Please verify your email first"
MsgUnexpected == "An unexpected error occurred. Please try again."
MsgAccountExists == "An account with this email already exists"
MsgSignUpFailed == "Sign up failed. Please try again."
MsgNetwork == "Network error. Please check your connection."

\* The text of the Alert.alert dialog.
MsgCheckInbox == "Please check your inbox for email verification!"

\* Raw messages of the auth service.
RawInvalidLogin == "Invalid login credentials"
RawNotConfirmed == "Email not confirmed"
RawUserExists == "User already exists"
RawOther == "Rate limit exceeded"
RawMessages == {RawInvalidLogin, RawNotConfirmed, RawUserExists, RawOther, ""}

MinPasswordLength == 6

(***************************************************************************)
(* What a supabase.auth call can settle with: it rejects (throws), or it   *)
(* resolves with an error object carrying a message, or it resolves with   *)
(* no error and with or without a session.                                 *)
(***************************************************************************)
ServiceResults ==
    {[throws |-> TRUE, hasError |-> FALSE, message |-> "", session |-> FALSE]}
    \cup {[throws |-> FALSE, hasError |-> TRUE, message |-> m, session |-> FALSE] :
            m \in RawMessages}
    \cup {[throws |-> FALSE, hasError |-> FALSE, message |-> "", session |-> s] :
            s \in BOOLEAN}

(***************************************************************************)
(* Inputs of the interactive specification.                                *)
(***************************************************************************)
ValidEmail == <<"a", "@", "b", ".", "c", "o">>
EmailInputs ==
    { <<>>, <<SP>>, <<"a">>, ValidEmail, <<SP>> \o ValidEmail \o <<SP>> }

Password5 == <<"1", "2", "3", "4", "5">>
Password6 == <<"1", "2", "3", "4", "5", "6">>
PasswordInputs ==
    { <<>>, <<SP>>, Password5, Password6, <<SP>> \o Password5 \o <<SP>> }

\* Inputs of the exhaustive validation specification.
AllEmails == StringsUpTo(EmailAlphabet, MaxEmailLen) \cup EmailInputs
AllPasswords ==
    {Repeat(c, n) : c \in {"p", SP}, n \in 0..MaxPasswordLen} \cup PasswordInputs

(***************************************************************************)
(* Validation, as the two handlers compute it: the message of the first    *)
(* failing check, NoError when every check passes.                         *)
(***************************************************************************)
signInValidation(e, p) ==
    IF IsFalsy(e) \/ IsFalsy(p) THEN MsgEnterBoth ELSE NoError

\* Bug: the length check runs before the format check.
signUpValidation_LengthFirst(e, p) ==
    IF IsFalsy(e) \/ IsFalsy(p) THEN MsgEnterBoth
    ELSE IF Len(p) < MinPasswordLength THEN MsgPasswordShort
    ELSE IF ~emailRegexTest(e) THEN MsgInvalidEmail
    ELSE NoError

\* Bug: password.length <= 6 instead of < 6.
signUpValidation_OffByOne(e, p) ==
    IF IsFalsy(e) \/ IsFalsy(p) THEN MsgEnterBoth
    ELSE IF ~emailRegexTest(e) THEN MsgInvalidEmail
    ELSE IF Len(p) <= MinPasswordLength THEN MsgPasswordShort
    ELSE NoError

signUpValidation(e, p) ==
    IF IsFalsy(e) \/ IsFalsy(p) THEN MsgEnterBoth
    ELSE IF ~emailRegexTest(e) THEN MsgInvalidEmail
    ELSE IF Len(p) < MinPasswordLength THEN MsgPasswordShort
    ELSE NoError

\* Bug: the password is trimmed too.
Credentials_TrimsPassword(e, p) == [email |-> Trim(e), password |-> Trim(p)]

\* The argument of signInWithPassword / signUp.
Credentials(e, p) == [email |-> Trim(e), password |-> p]

(***************************************************************************)
(* Outcome of a settled call: the setError calls of the try/catch body.    *)
(* NoChange stands for "setError is not called".                           *)
(***************************************************************************)
NoChange == "<unchanged>"

\* Bug: the default branch shows the raw message, as sign-up does.
signInOutcome_Raw(r) ==
    IF r.throws THEN MsgNetwork
    ELSE IF r.hasError THEN
        CASE r.message = RawInvalidLogin -> MsgIncorrect
          [] r.message = RawNotConfirmed -> MsgVerifyFirst
          [] OTHER -> IF r.message # "" THEN r.message ELSE MsgUnexpected
    ELSE NoChange

signInOutcome(r) ==
    IF r.throws THEN MsgNetwork
    ELSE IF r.hasError THEN
        CASE r.message = RawInvalidLogin -> MsgIncorrect
          [] r.message = RawNotConfirmed -> MsgVerifyFirst
          [] OTHER -> MsgUnexpected
    ELSE NoChange

\* Bug: the default branch lacks the || fallback for an empty message.
signUpOutcome_NoFallback(r) ==
    IF r.throws THEN MsgNetwork
    ELSE IF r.hasError THEN
        CASE r.message = RawUserExists -> MsgAccountExists
          [] OTHER -> r.message
    ELSE NoChange

signUpOutcome(r) ==
    IF r.throws THEN MsgNetwork
    ELSE IF r.hasError THEN
        CASE r.message = RawUserExists -> MsgAccountExists
          [] OTHER -> IF r.message # "" THEN r.message ELSE MsgSignUpFailed
    ELSE NoChange

\* Bug: else if (session) instead of else if (!session).
signUpAlerts_Inverted(r) == ~r.throws /\ ~r.hasError /\ r.session

\* Bug: if (!session) instead of else if (!session).
signUpAlerts_IgnoresError(r) == ~r.throws /\ ~r.session

\* Alert.alert is reached when signUp resolves with no error and no session.
signUpAlerts(r) == ~r.throws /\ ~r.hasError /\ ~r.session

(***************************************************************************)
(* Presentation guards.                                                    *)
(***************************************************************************)
\* Bug: the buttons are never disabled.
Disabled_Never == FALSE

\* disabled={loading} of both Pressable buttons: a press is dropped.
Disabled == loading

(***************************************************************************)
(* The machine.                                                            *)
(***************************************************************************)
\* One committed render, as far as loading and error go.
Snapshot(l, e) == [loading |-> l, error |-> e]

\* Bug: no catch block.
Caught_Never(r) == FALSE

\* catch (err): the clause has no filter, it takes every thrown value.
Caught(r) == r.throws

\* The renders committed by the code after an await that calls
\* setError(outcome) (unless outcome is NoChange) and ends with loading = l:
\* one render when the updates are batched, else one per setState call.
SettleCommits(outcome, l) ==
    IF outcome = NoChange THEN <<Snapshot(l, error)>>
    ELSE IF batched THEN <<Snapshot(l, outcome)>>
    ELSE <<Snapshot(loading, outcome), Snapshot(l, outcome)>>

NoResult == [throws |-> FALSE, hasError |-> FALSE, message |-> "", session |-> TRUE]

\* The event of the latest step (history, read by the properties only): which
\* operation ran, how it ended, the service result it consumed, and whether
\* an error was showing when it started.
Event(op, outcome, result) ==
    [op |-> op, outcome |-> outcome, result |-> result, hadError |-> error # NoError]

Init ==
    /\ email = <<>>
    /\ password = <<>>
    /\ loading = FALSE
    /\ error = NoError
    /\ requests = <<>>
    /\ notices = 0
    /\ last = [op |-> "init", outcome |-> "none", result |-> NoResult,
               hadError |-> FALSE]
    /\ escaped = FALSE
    /\ batched \in BOOLEAN
    /\ commits = <<Snapshot(FALSE, NoError)>>

\* Bug: setLoading(true) is missing.
Submit_KeepsLoading(op, reason) ==
    IF reason # NoError
    THEN /\ error' = reason
         /\ last' = Event(op, "rejected", NoResult)
         /\ UNCHANGED <<email, password, loading, requests, notices, escaped, batched>>
         /\ commits' = <<Snapshot(loading', error')>>
    ELSE /\ error' = NoError
         /\ requests' = Append(requests, [op |-> op] @@ Credentials(email, password))
         /\ last' = Event(op, "dispatched", NoResult)
         /\ UNCHANGED <<email, password, loading, notices, escaped, batched>>
         /\ commits' = <<Snapshot(loading', error')>>

\* Bug: setLoading(true) runs before the validation returns.
Submit_LoadingFirst(op, reason) ==
    IF reason # NoError
    THEN /\ loading' = TRUE
         /\ error' = reason
         /\ last' = Event(op, "rejected", NoResult)
         /\ UNCHANGED <<email, password, requests, notices, escaped, batched>>
         /\ commits' = <<Snapshot(loading', error')>>
    ELSE /\ loading' = TRUE
         /\ error' = NoError
         /\ requests' = Append(requests, [op |-> op] @@ Credentials(email, password))
         /\ last' = Event(op, "dispatched", NoResult)
         /\ UNCHANGED <<email, password, notices, escaped, batched>>
         /\ commits' = <<Snapshot(loading', error')>>

\* Bug: setError('') before the call is missing.
Submit_NoClear(op, reason) ==
    IF reason # NoError
    THEN /\ error' = reason
         /\ last' = Event(op, "rejected", NoResult)
         /\ UNCHANGED <<email, password, loading, requests, notices, escaped, batched>>
         /\ commits' = <<Snapshot(loading', error')>>
    ELSE /\ loading' = TRUE
         /\ requests' = Append(requests, [op |-> op] @@ Credentials(email, password))
         /\ last' = Event(op, "dispatched", NoResult)
         /\ UNCHANGED <<email, password, error, notices, escaped, batched>>
         /\ commits' = <<Snapshot(loading', error')>>

\* The part of a submit handler before its await: validate, then either
\* setError(reason) and return, or setLoading(true), setError('') and issue
\* the call with email.trim() and the password.
Submit(op, reason) ==
    IF reason # NoError
    THEN /\ error' = reason
         /\ last' = Event(op, "rejected", NoResult)
         /\ UNCHANGED <<email, password, loading, requests, notices, escaped, batched>>
         /\ commits' = <<Snapshot(loading', error')>>
    ELSE /\ loading' = TRUE
         /\ error' = NoError
         /\ requests' = Append(requests, [op |-> op] @@ Credentials(email, password))
         /\ last' = Event(op, "dispatched", NoResult)
         /\ UNCHANGED <<email, password, notices, escaped, batched>>
         /\ commits' = <<Snapshot(loading', error')>>

signInWithEmail == Submit("signIn", signInValidation(email, password))

signUpWithEmail == Submit("signUp", signUpValidation(email, password))

Dropped(op) ==
    /\ last' = Event(op, "dropped", NoResult)
    /\ commits' = <<>>
    /\ UNCHANGED <<email, password, loading, error, requests, notices, escaped, batched>>

\* A press on the "Sign in" Pressable.
PressSignIn ==
    /\ notices < MaxNotices
    /\ IF Disabled THEN Dropped("signIn") ELSE signInWithEmail

\* A press on the "Sign up" Pressable.
PressSignUp ==
    /\ notices < MaxNotices
    /\ IF Disabled THEN Dropped("signUp") ELSE signUpWithEmail

\* editable={!loading} of both TextInput fields.
Editable == ~loading

\* A change event that the field does not deliver to its handler.
Ignored(op) ==
    /\ last' = Event(op, "ignored", NoResult)
    /\ commits' = <<>>
    /\ UNCHANGED <<email, password, loading, error, requests, notices, escaped, batched>>

\* Bug: an edit also calls setLoading(false).
onChangeEmail_ResetsLoading(text) ==
    /\ email' = text
    /\ error' = NoError
    /\ loading' = FALSE
    /\ last' = Event("setEmail", "applied", NoResult)
    /\ UNCHANGED <<password, requests, notices, escaped, batched>>
    /\ commits' = <<Snapshot(loading', error')>>

\* Bug: an email edit also resets the password.
onChangeEmail_ClearsPassword(text) ==
    /\ email' = text
    /\ password' = <<>>
    /\ error' = NoError
    /\ last' = Event("setEmail", "applied", NoResult)
    /\ UNCHANGED <<loading, requests, notices, escaped, batched>>
    /\ commits' = <<Snapshot(loading', error')>>

\* The onChangeText handler of the email field: setEmail(text); setError('').
onChangeEmail(text) ==
    /\ email' = text
    /\ error' = NoError
    /\ last' = Event("setEmail", "applied", NoResult)
    /\ UNCHANGED <<password, loading, requests, notices, escaped, batched>>
    /\ commits' = <<Snapshot(loading', error')>>

\* Bug: setError('') is missing from the password handler.
onChangePassword_NoClear(text) ==
    /\ password' = text
    /\ last' = Event("setPassword", "applied", NoResult)
    /\ UNCHANGED <<email, loading, error, requests, notices, escaped, batched>>
    /\ commits' = <<Snapshot(loading', error')>>

\* Bug: the call reads the password when it is sent, not when it is issued.
onChangePassword_UpdatesRequest(text) ==
    /\ password' = text
    /\ error' = NoError
    /\ requests' = [k \in DOMAIN requests |-> [requests[k] EXCEPT !.password = text]]
    /\ last' = Event("setPassword", "applied", NoResult)
    /\ UNCHANGED <<email, loading, notices, escaped, batched>>
    /\ commits' = <<Snapshot(loading', error')>>

\* The onChangeText handler of the password field: setPassword(text); setError('').
onChangePassword(text) ==
    /\ password' = text
    /\ error' = NoError
    /\ last' = Event("setPassword", "applied", NoResult)
    /\ UNCHANGED <<email, loading, requests, notices, escaped, batched>>
    /\ commits' = <<Snapshot(loading', error')>>

\* A text change of the email field.  The handler itself has no guard.  While
\* the field is not editable the native view drops the change, but a change
\* made before editable={false} reached the view is still delivered: both
\* outcomes are allowed.
ChangeEmail ==
    \E text \in EmailInputs :
        IF Editable
        THEN onChangeEmail(text)
        ELSE onChangeEmail(text) \/ Ignored("setEmail")

\* A text change of the password field, likewise.
ChangePassword ==
    \E text \in PasswordInputs :
        IF Editable
        THEN onChangePassword(text)
        ELSE onChangePassword(text) \/ Ignored("setPassword")

Remove(s, i) == SubSeq(s, 1, i - 1) \o SubSeq(s, i + 1, Len(s))

OutcomeKind(r) ==
    IF r.throws THEN "thrown" ELSE IF r.hasError THEN "failure" ELSE "success"

\* Bug: setLoading(false) at the end of the try body, not in a finally block.
Settle_NoFinally(i, r, outcome, alerts) ==
    /\ error' = IF outcome = NoChange THEN error ELSE outcome
    /\ notices' = IF alerts THEN notices + 1 ELSE notices
    /\ loading' = IF r.throws THEN loading ELSE FALSE
    /\ requests' = Remove(requests, i)
    /\ last' = Event(requests[i].op, OutcomeKind(r), r)
    /\ escaped' = (escaped \/ (r.throws /\ ~Caught(r)))
    /\ commits' = SettleCommits(outcome, loading')
    /\ UNCHANGED <<email, password, batched>>

\* The code after an await: the try body's setError calls or the catch
\* block's, the alert, then the finally block's setLoading(false).
Settle(i, r, outcome, alerts) ==
    /\ error' = IF outcome = NoChange THEN error ELSE outcome
    /\ notices' = IF alerts THEN notices + 1 ELSE notices
    /\ loading' = FALSE
    /\ requests' = Remove(requests, i)
    /\ last' = Event(requests[i].op, OutcomeKind(r), r)
    /\ escaped' = (escaped \/ (r.throws /\ ~Caught(r)))
    /\ commits' = SettleCommits(outcome, FALSE)
    /\ UNCHANGED <<email, password, batched>>

SettleSignIn ==
    \E i \in 1..Len(requests) : \E r \in ServiceResults :
        /\ requests[i].op = "signIn"
        /\ Settle(i, r, signInOutcome(r), FALSE)

SettleSignUp ==
    \E i \in 1..Len(requests) : \E r \in ServiceResults :
        /\ requests[i].op = "signUp"
        /\ Settle(i, r, signUpOutcome(r), signUpAlerts(r))

Next ==
    \/ PressSignIn
    \/ PressSignUp
    \/ ChangeEmail
    \/ ChangePassword
    \/ SettleSignIn
    \/ SettleSignUp

Spec == Init /\ [][Next]_vars

\* The awaited promise settles: the service returns or the transport throws.
LiveSpec == Spec /\ WF_vars(SettleSignIn) /\ WF_vars(SettleSignUp)

(***************************************************************************)
(* Validation on every short input: the form holds any email and password  *)
(* up to the bounds, and a button is pressed.                              *)
(***************************************************************************)
InitValidation ==
    /\ email \in AllEmails
    /\ password \in AllPasswords
    /\ loading = FALSE
    /\ error = NoError
    /\ requests = <<>>
    /\ notices = 0
    /\ last = [op |-> "init", outcome |-> "none", result |-> NoResult,
               hadError |-> FALSE]
    /\ escaped = FALSE
    /\ batched \in BOOLEAN
    /\ commits = <<Snapshot(FALSE, NoError)>>

NextValidation ==
    \/ PressSignIn
    \/ PressSignUp

ValidationSpec == InitValidation /\ [][NextValidation]_vars

(***************************************************************************)
(* Properties.                                                             *)
(***************************************************************************)
IsPress(e) == e.outcome \in {"dropped", "rejected", "dispatched"}
IsSettle(e) == e.outcome \in {"thrown", "failure", "success"}

\* Empty or made of whitespace only.
IsBlank(s) == \A k \in 1..Len(s) : IsWhitespace(s[k])

Count(s, c) == Cardinality({k \in 1..Len(s) : s[k] = c})

\* local-part @ domain . tld : no whitespace, exactly one @ with something
\* before it, and a dot after it with something on both sides.
WellFormedEmail(s) ==
    /\ Count(s, SP) = 0
    /\ Count(s, "@") = 1
    /\ LET at == CHOOSE k \in 1..Len(s) : s[k] = "@"
       IN  /\ at > 1
           /\ \E k \in (at + 2)..(Len(s) - 1) : s[k] = "."

\* The message of the earliest failing sign-up check, NoError if none fails.
FirstFailingCheck(e, p) ==
    IF Len(e) = 0 \/ Len(p) = 0 THEN MsgEnterBoth
    ELSE IF ~WellFormedEmail(e) THEN MsgInvalidEmail
    ELSE IF Len(p) < 6 THEN MsgPasswordShort
    ELSE NoError

\* requests' is requests with one more request of operation op.
OneCall(op) ==
    /\ Len(requests') = Len(requests) + 1
    /\ SubSeq(requests', 1, Len(requests)) = requests
    /\ requests'[Len(requests')].op = op

\* C1: a press on either button while loading is true changes none of
\* email, password, loading, error, and issues no call.
C1_SubmitWhileLoadingIsNoOp ==
    [][(IsPress(last') /\ loading)
        => UNCHANGED <<email, password, loading, error, requests, notices>>]_vars

C1_Witness ==
    /\ last.outcome = "dropped"
    /\ loading
    /\ Len(requests) = 1

\* C2: at most one request is outstanding, and whenever one is outstanding
\* loading is already true, so no second submit can be accepted.
C2_AtMostOneOutstanding ==
    /\ Len(requests) <= 1
    /\ (Len(requests) = 1 => loading)

C2_Witness ==
    /\ Len(requests) = 1
    /\ last.op = "setEmail"
    /\ last.outcome = "applied"
    /\ loading

\* C3 (as claimed): a submit with a blank (empty or whitespace-only) email or
\* password ends with the enter-both message, loading false and no call.
C3_BlankFieldsRejected ==
    [][(IsPress(last') /\ ~loading /\ (IsBlank(email) \/ IsBlank(password)))
        => (error' = MsgEnterBoth /\ loading' = FALSE /\ requests' = requests)]_vars

\* C4: a sign-up whose input fails a check ends with the message of the
\* earliest failing check (emptiness, format, length), loading false, no call.
C4_SignUpReportsFirstFailingCheck ==
    [][(IsPress(last') /\ last'.op = "signUp" /\ ~loading
            /\ FirstFailingCheck(email, password) # NoError)
        => /\ error' = FirstFailingCheck(email, password)
           /\ loading' = FALSE
           /\ requests' = requests]_vars

C4_Witness ==
    /\ last.op = "signUp"
    /\ last.outcome = "rejected"
    /\ error = MsgInvalidEmail
    /\ ~WellFormedEmail(email)
    /\ Len(password) > 0
    /\ Len(password) < 6
    /\ requests = <<>>

\* C5: an accepted press issues exactly one call of its own operation when
\* the input passes validation (sign-in: both fields non-empty; sign-up:
\* well-formed email and at least 6 password characters), and none otherwise.
C5_OneCallPerValidSubmission ==
    [][(IsPress(last') /\ ~loading)
        => IF last'.op = "signIn"
           THEN IF Len(email) > 0 /\ Len(password) > 0
                THEN OneCall("signIn") ELSE requests' = requests
           ELSE IF Len(email) > 0 /\ WellFormedEmail(email) /\ Len(password) >= 6
                THEN OneCall("signUp") ELSE requests' = requests]_vars

C5_Witness ==
    /\ last.op = "signUp"
    /\ last.outcome = "dispatched"
    /\ email = ValidEmail
    /\ password = Password6
    /\ Len(requests) = 1
    /\ requests[1].op = "signUp"

\* C6: whenever a request is outstanding, loading eventually becomes false.
C6_LoadingEventuallyFalse == (Len(requests) > 0) ~> (loading = FALSE)

C6_Witness ==
    /\ last.outcome = "thrown"
    /\ loading = FALSE
    /\ requests = <<>>

\* C7: loading becomes true exactly at a dispatch, false exactly at the
\* settling of that request, and changes at no other step; a rejected
\* submit leaves it false.
C7_LoadingOncePerSubmission ==
    [][/\ (last'.outcome = "dispatched" => (~loading /\ loading' /\ Len(requests') = 1))
       /\ (last'.outcome = "rejected" => (~loading /\ ~loading'))
       /\ (IsSettle(last') => (loading /\ ~loading' /\ requests' = <<>>))
       /\ (loading' # loading => (last'.outcome = "dispatched" \/ IsSettle(last')))]_vars

C7_Witness ==
    /\ IsSettle(last)
    /\ last.outcome = "success"
    /\ ~loading
    /\ requests = <<>>

\* C8: loading is true while a request is outstanding, and only the settling
\* of the outstanding request takes loading from true to false.
C8_LoadingHeldUntilSettled ==
    /\ [](Len(requests) > 0 => loading)
    /\ [][(loading /\ ~loading')
            => (IsSettle(last') /\ Len(requests') < Len(requests))]_vars

C8_Witness ==
    /\ loading
    /\ Len(requests) = 1
    /\ last.op = "setPassword"
    /\ last.outcome = "applied"

\* C9: in the state in which a call is issued, loading is true and error is ''.
C9_ErrorClearedAtDispatch ==
    [][Len(requests') > Len(requests) => (loading' = TRUE /\ error' = NoError)]_vars

C9_Witness ==
    /\ last.outcome = "dispatched"
    /\ last.hadError
    /\ loading
    /\ error = NoError

\* C10: a sign-in whose call resolves ends with loading false and error the
\* mapped message of the service error, or '' when there is no error.
C10_SignInFinalState ==
    [][(IsSettle(last') /\ last'.op = "signIn" /\ ~last'.result.throws)
        => /\ loading' = FALSE
           /\ error' = IF ~last'.result.hasError THEN ""
                        ELSE IF last'.result.message = "Invalid login credentials"
                             THEN "Incorrect email or password"
                        ELSE IF last'.result.message = "Email not confirmed"
                             THEN "Please verify your email first"
                        ELSE "An unexpected error occurred. Please try again."]_vars

C10_Witness ==
    /\ last.op = "signIn"
    /\ last.outcome = "failure"
    /\ last.result.message = RawOther
    /\ error = MsgUnexpected
    /\ ~loading

\* C11: a sign-up whose call resolves ends with loading false and error the
\* already-exists message, else the raw message, else (empty message) the
\* sign-up-failed message, or '' when there is no error, session or not.
C11_SignUpFinalState ==
    [][(IsSettle(last') /\ last'.op = "signUp" /\ ~last'.result.throws)
        => /\ loading' = FALSE
           /\ error' = IF ~last'.result.hasError THEN ""
                        ELSE IF last'.result.message = "User already exists"
                             THEN "An account with this email already exists"
                        ELSE IF last'.result.message = ""
                             THEN "Sign up failed. Please try again."
                        ELSE last'.result.message]_vars

C11_Witness ==
    /\ last.op = "signUp"
    /\ last.outcome = "failure"
    /\ last.result.message = ""
    /\ error = MsgSignUpFailed
    /\ ~loading

\* C12: a sign-up that resolves with no error and no session ends with error
\* '' and loading false, raises the notice exactly once and never puts its
\* text into error.
C12_PendingVerificationNotice ==
    [][(IsSettle(last') /\ last'.op = "signUp" /\ ~last'.result.throws
            /\ ~last'.result.hasError /\ ~last'.result.session)
        => /\ error' = ""
           /\ error' # MsgCheckInbox
           /\ loading' = FALSE
           /\ notices' = notices + 1]_vars

C12_Witness ==
    /\ last.op = "signUp"
    /\ last.outcome = "success"
    /\ ~last.result.session
    /\ notices = 1
    /\ error = NoError
    /\ ~loading

\* C13: when the call of either handler throws, the handler ends with the
\* network message in error and loading false, and no exception leaves it.
C13_TransportFailure ==
    /\ [](escaped = FALSE)
    /\ [][(IsSettle(last') /\ last'.result.throws)
            => (error' = "Network error. Please check your connection."
                /\ loading' = FALSE)]_vars

C13_Witness ==
    /\ last.op = "signUp"
    /\ last.outcome = "thrown"
    /\ error = MsgNetwork
    /\ ~loading
    /\ ~escaped

\* t is s without its leading and trailing whitespace.
IsTrimOf(t, s) ==
    \E i \in 1..(Len(s) + 1) : \E j \in 0..Len(s) :
        /\ t = SubSeq(s, i, j)
        /\ \A k \in 1..(i - 1) : s[k] = SP
        /\ \A k \in (j + 1)..Len(s) : s[k] = SP
        /\ (i <= j => (s[i] # SP /\ s[j] # SP))
        /\ (i > j => (i = Len(s) + 1 /\ j = Len(s)))

\* C14: every edit of either field ends with error = '', whatever error was
\* showing before; so does a second edit.
C14_EditClearsError ==
    [][last'.op \in {"setEmail", "setPassword"} => error' = ""]_vars

C14_Witness ==
    /\ last.op = "setPassword"
    /\ last.outcome = "applied"
    /\ last.hadError
    /\ error = NoError

\* C15: the request of an accepted submission carries the form's email
\* without leading and trailing whitespace and the form's password as it is.
C15_CredentialsSent ==
    [][Len(requests') > Len(requests)
        => /\ IsTrimOf(requests'[Len(requests')].email, email)
           /\ requests'[Len(requests')].password = password]_vars

C15_Witness ==
    /\ last.outcome = "dispatched"
    /\ email = <<SP>> \o ValidEmail \o <<SP>>
    /\ password = <<SP>> \o Password5 \o <<SP>>
    /\ Len(requests) = 1
    /\ requests[1].email = ValidEmail
    /\ requests[1].password = password

\* C16 (as claimed): error is '' in every state with loading true, and no
\* render shows the outcome error of a settled request while loading is
\* still true.
C16_NoErrorShownWhileLoading ==
    /\ (loading => error = NoError)
    /\ \A k \in 1..Len(commits) : commits[k].loading => commits[k].error = NoError

\* C16 (amended): error is '' in every state with loading true in which a
\* handler can run, that is, between two tasks of the event loop.
C16_NoErrorWhileLoading == loading => error = NoError

C16_Witness ==
    /\ loading
    /\ error = NoError
    /\ Len(requests) = 1
    /\ last.outcome = "ignored"

\* C17: the notice count changes only at the settling of a sign-up that
\* resolved with no error and no session, and then by one.
C17_NoticeOnlyForPendingSignUp ==
    [][notices' # notices
        => /\ IsSettle(last')
           /\ last'.op = "signUp"
           /\ ~last'.result.throws
           /\ ~last'.result.hasError
           /\ ~last'.result.session
           /\ notices' = notices + 1]_vars

C17_Witness ==
    /\ last.op = "signUp"
    /\ last.outcome = "failure"
    /\ ~last.result.session
    /\ notices = 0

\* C18: an email edit leaves password, loading, the requests and the notices
\* unchanged, a password edit leaves email, loading, the requests and the
\* notices unchanged, and a rejected submit leaves email, password, loading,
\* the requests and the notices unchanged.
C18_Frame ==
    [][/\ (last'.op = "setEmail"
            => UNCHANGED <<password, loading, requests, notices>>)
       /\ (last'.op = "setPassword"
            => UNCHANGED <<email, loading, requests, notices>>)
       /\ (last'.outcome = "rejected"
            => UNCHANGED <<email, password, loading, requests, notices>>)]_vars

C18_Witness ==
    /\ last.op = "setEmail"
    /\ last.outcome = "applied"
    /\ email = ValidEmail
    /\ password = Password6
    /\ notices = 1

\* The message a settled request leaves in error, by operation and result.
OutcomeMessage(op, r) ==
    IF r.throws THEN MsgNetwork
    ELSE IF ~r.hasError THEN NoError
    ELSE IF op = "signIn"
         THEN IF r.message = RawInvalidLogin THEN MsgIncorrect
              ELSE IF r.message = RawNotConfirmed THEN MsgVerifyFirst
              ELSE MsgUnexpected
    ELSE IF r.message = RawUserExists THEN MsgAccountExists
    ELSE IF r.message = "" THEN MsgSignUpFailed
    ELSE r.message

\* C19: a request carries the trimmed email and the password of the form at
\* its dispatch; no later step changes them, an edit in flight included; and
\* the message its settling writes depends on its result alone.
C19_CredentialsFixedAtDispatch ==
    [][/\ (Len(requests') > Len(requests)
            => /\ IsTrimOf(requests'[Len(requests')].email, email)
               /\ requests'[Len(requests')].password = password)
       /\ \A k \in 1..Len(requests) :
            k <= Len(requests') => requests'[k] = requests[k]
       /\ (last'.op \in {"setEmail", "setPassword"} => requests' = requests)
       /\ (IsSettle(last') => error' = OutcomeMessage(last'.op, last'.result))]_vars

C19_Witness ==
    /\ loading
    /\ Len(requests) = 1
    /\ last.op = "setPassword"
    /\ last.outcome = "applied"
    /\ requests[1].password = Password6
    /\ password = Password5
    /\ requests[1].email = ValidEmail
    /\ email = <<"a">>

====
